---------------------------- MODULE Spec2Model ----------------------------
(***************************************************************************)
(* Model of the data-cleaning pipeline of gymProgress.ipynb: the repair of *)
(* the Progression csv export (fix_linebreaks, replace_comma_in_comments), *)
(* the clean-up and extension of the GymBook table, the removal of the    *)
(* redundant columns, the merge of the two tables, the renaming of the     *)
(* exercises and the completion of their muscle categories.                *)
(*                                                                         *)
(* Text is modelled by TLA+ strings; a csv line is a sequence of fields,   *)
(* a table (DataFrame) a sequence of rows, a row a record of its columns.  *)
(* Each function of the notebook has a specification of its own, whose     *)
(* Init draws the function's input from a bounded set; the variables a     *)
(* specification does not use stay at Idle.                                *)
(***************************************************************************)
EXTENDS Integers, Sequences, FiniteSets, TLC

VARIABLES
    pc,            \* position in the function / notebook being run
    csv_in,        \* the lines of the csv file as csv.reader yields them
    reader,        \* the iterator over csv_in: the lines not yet consumed
    fixed_lines,   \* the local list fixed_lines of the two csv repairs
    raised,        \* the exception that ended the call, "none" otherwise
    file_gymbook,  \* the GymBook table as read_csv loaded it
    file_progression, \* the Progression table as read_csv loaded it
    df_gymbook,    \* the notebook's df_gymbook
    df_progression,\* the notebook's df_progression
    df,            \* the notebook's df, the unified table
    exercises_gymbook,              \* set(df_gymbook["Exercise Name"])
    map_gymbook_plural_to_singular, \* the result of singularize
    exercises_without_category,     \* the three sets of the category cell
    exercises_with_category,
    exercises_with_lost_category,
    exercise_iter  \* the exercises the loop over the lost ones has yet to visit

vars == <<pc, csv_in, reader, fixed_lines, raised, file_gymbook,
          file_progression, df_gymbook, df_progression, df,
          exercises_gymbook, map_gymbook_plural_to_singular,
          exercises_without_category, exercises_with_category,
          exercises_with_lost_category, exercise_iter>>

csvVars == <<csv_in, reader, fixed_lines, raised>>
tableVars == <<file_gymbook, file_progression, df_gymbook, df_progression>>
nameVars == <<exercises_gymbook, map_gymbook_plural_to_singular>>
categoryVars == <<exercises_without_category, exercises_with_category,
                  exercises_with_lost_category, exercise_iter>>

Idle == <<>>

\* the variables of the parts of the notebook a specification does not run
IdleCsv ==
    /\ csv_in = Idle
    /\ reader = Idle
    /\ fixed_lines = Idle
    /\ raised = "none"
IdleTables ==
    /\ file_gymbook = Idle
    /\ file_progression = Idle
    /\ df_gymbook = Idle
    /\ df_progression = Idle
IdleNames ==
    /\ exercises_gymbook = Idle
    /\ map_gymbook_plural_to_singular = Idle
IdleCategories ==
    /\ exercises_without_category = Idle
    /\ exercises_with_category = Idle
    /\ exercises_with_lost_category = Idle
    /\ exercise_iter = Idle

---------------------------------------------------------------------------
(* Strings *)

Char(s, i) == SubSeq(s, i, i)

IsDigit(c) == c \in {"0", "1", "2", "3", "4", "5", "6", "7", "8", "9"}

\* s[:-n] for n >= 1
DropLast(s, n) == SubSeq(s, 1, Len(s) - n)

\* s[-n:], the whole of s when it is shorter than n
LastChars(s, n) == IF Len(s) <= n THEN s ELSE SubSeq(s, Len(s) - n + 1, Len(s))

\* re.match("\d{4}-\d{2}-\d{2}", s): the pattern is matched at the start of s
MatchDate(s) ==
    /\ Len(s) >= 10
    /\ \A i \in {1, 2, 3, 4, 6, 7, 9, 10} : IsDigit(Char(s, i))
    /\ Char(s, 5) = "-"
    /\ Char(s, 8) = "-"

---------------------------------------------------------------------------
(* fix_linebreaks *)

\* MergeLines with a slip: the continuation is added as fields of its own
MergeLinesNoJoin(last_line, line) == last_line \o line

\* last_line[:-1] + [". ".join([last_line[-1], line[0]])] + line[1:]
MergeLines(last_line, line) ==
    DropLast(last_line, 1)
        \o << last_line[Len(last_line)] \o ". " \o line[1] >>
        \o Tail(line)

\* fixed_lines[-1] = v
SetLast(lines, v) == [lines EXCEPT ![Len(lines)] = v]

\* fixed_lines = [next(reader)]
LbHeader ==
    /\ pc = "lb_start"
    /\ fixed_lines' = << Head(reader) >>
    /\ reader' = Tail(reader)
    /\ pc' = "lb_loop"
    /\ UNCHANGED <<csv_in, raised, tableVars, df, nameVars,
                   categoryVars>>

\* for line in reader: if not line: next_line = next(reader); ...
LbEmptyLine ==
    /\ pc = "lb_loop"
    /\ reader # <<>>
    /\ Head(reader) = <<>>
    /\ IF Tail(reader) = <<>>
         THEN \* next(reader) on the exhausted reader
              /\ raised' = "StopIteration"
              /\ pc' = "lb_raised"
              /\ reader' = <<>>
              /\ UNCHANGED fixed_lines
         ELSE LET next_line == reader[2] IN
              IF next_line = <<>>
                THEN \* next_line[0] of an empty list
                     /\ raised' = "IndexError"
                     /\ pc' = "lb_raised"
                     /\ reader' = Tail(Tail(reader))
                     /\ UNCHANGED fixed_lines
                ELSE /\ fixed_lines' = SetLast(fixed_lines,
                            MergeLines(fixed_lines[Len(fixed_lines)], next_line))
                     /\ reader' = Tail(Tail(reader))
                     /\ UNCHANGED <<pc, raised>>
    /\ UNCHANGED <<csv_in, tableVars, df, nameVars,
                   categoryVars>>

\* elif not re.match("\d{4}-\d{2}-\d{2}", line[0]): ...
LbLineBreak ==
    /\ pc = "lb_loop"
    /\ reader # <<>>
    /\ Head(reader) # <<>>
    /\ ~MatchDate(Head(reader)[1])
    /\ fixed_lines' = SetLast(fixed_lines,
            MergeLines(fixed_lines[Len(fixed_lines)], Head(reader)))
    /\ reader' = Tail(reader)
    /\ UNCHANGED <<pc, csv_in, raised, tableVars, df, nameVars,
                   categoryVars>>

\* else: fixed_lines.append(line)
LbAppend ==
    /\ pc = "lb_loop"
    /\ reader # <<>>
    /\ Head(reader) # <<>>
    /\ MatchDate(Head(reader)[1])
    /\ fixed_lines' = Append(fixed_lines, Head(reader))
    /\ reader' = Tail(reader)
    /\ UNCHANGED <<pc, csv_in, raised, tableVars, df, nameVars,
                   categoryVars>>

\* return iter(fixed_lines)
LbReturn ==
    /\ pc = "lb_loop"
    /\ reader = <<>>
    /\ pc' = "lb_returned"
    /\ UNCHANGED <<csvVars, tableVars, df, nameVars,
                   categoryVars>>

\* The exported file: a header row and up to MaxLines data lines.
MaxLines == 3
LbFields == {"2022-04-18", "ab", "2022-4-18"}
LbLines == {<<>>} \cup {<<f>> : f \in LbFields}
                  \cup {<<f, g>> : f \in LbFields, g \in LbFields}
LbHeaderRow == <<"Date", "Set Comment">>
SeqsUpTo(S, n) == UNION {[1..k -> S] : k \in 0..n}

InitLinebreaks ==
    /\ pc = "lb_start"
    /\ \E data \in SeqsUpTo(LbLines, MaxLines) : csv_in = <<LbHeaderRow>> \o data
    /\ reader = csv_in
    /\ fixed_lines = <<>>
    /\ raised = "none"
    /\ IdleTables
    /\ df = Idle
    /\ IdleNames
    /\ IdleCategories

NextLinebreaks ==
    \/ LbHeader
    \/ LbEmptyLine
    \/ LbLineBreak
    \/ LbAppend
    \/ LbReturn

SpecLinebreaks == InitLinebreaks /\ [][NextLinebreaks]_vars

---------------------------------------------------------------------------
(* C1 *)

\* Line i of the file opens a row of the result: the header, or a line that
\* starts with a date and does not follow an empty line.
LbRowStart(i) ==
    \/ i = 1
    \/ /\ csv_in[i] # <<>>
       /\ MatchDate(csv_in[i][1])
       /\ csv_in[i - 1] # <<>>

\* The row line i belongs to, as it stands once line i has been read: the
\* line itself when it opens a row, otherwise the content so far with the
\* line's first field joined to the last field by ". " and its remaining
\* fields added.
RECURSIVE LbRowUpTo(_)
LbRowUpTo(i) ==
    IF LbRowStart(i) THEN csv_in[i]
    ELSE IF csv_in[i] = <<>> THEN LbRowUpTo(i - 1)
    ELSE LET before == LbRowUpTo(i - 1) IN
         DropLast(before, 1)
             \o << before[Len(before)] \o ". " \o csv_in[i][1] >>
             \o Tail(csv_in[i])

LbStarts == {i \in 1..Len(csv_in) : LbRowStart(i)}
\* the last line of the row that line i opens
LbRowEnd(i) ==
    CHOOSE j \in i..Len(csv_in) :
        /\ \A k \in (i + 1)..j : ~LbRowStart(k)
        /\ (j = Len(csv_in) \/ LbRowStart(j + 1))
\* the number of the row that line i belongs to
LbRowOf(i) == Cardinality({j \in LbStarts : j <= i})

---------------------------------------------------------------------------
(* replace_comma_in_comments *)

\* the position of the first "," of s, 0 when it has none
FirstComma(s) ==
    IF \E i \in 1..Len(s) : Char(s, i) = ","
      THEN CHOOSE i \in 1..Len(s) :
               /\ Char(s, i) = ","
               /\ \A j \in 1..(i - 1) : Char(s, j) # ","
      ELSE 0

\* s.split(",")
RECURSIVE Split(_)
Split(s) ==
    LET i == FirstComma(s) IN
    IF i = 0 THEN <<s>>
    ELSE <<SubSeq(s, 1, i - 1)>> \o Split(SubSeq(s, i + 1, Len(s)))

\* ",".join(parts)
RECURSIVE Join(_)
Join(parts) ==
    IF parts = <<>> THEN ""
    ELSE IF Len(parts) = 1 THEN parts[1]
    ELSE parts[1] \o "," \o Join(Tail(parts))

\* s.count(",")
CountCommas(s) == Cardinality({i \in 1..Len(s) : Char(s, i) = ","})

\* the number of fields before the set comment
FirstPartsCount == 14
\* the number of fields after the session comment
EndPartsCount == 2

\* The loop over comment_parts[1:], from part i on. The result is the list
\* fixed_parts, or the exception the loop raises.
RECURSIVE FixParts(_, _, _)
FixParts(comment_parts, i, fixed_parts) ==
    IF i > Len(comment_parts) THEN [raised |-> "none", parts |-> fixed_parts]
    ELSE LET part == comment_parts[i]
             last == fixed_parts[Len(fixed_parts)]
         IN
         IF part # "" /\ Char(part, 1) = " "
           THEN FixParts(comment_parts, i + 1,
                         SetLast(fixed_parts, last \o ";" \o part))
         ELSE IF part # "" /\ IsDigit(Char(part, 1))
           THEN IF last = ""
                  THEN \* fixed_parts[-1][-1] of an empty string
                       [raised |-> "IndexError", parts |-> fixed_parts]
                ELSE IF IsDigit(Char(last, Len(last)))
                  THEN FixParts(comment_parts, i + 1,
                                SetLast(fixed_parts, last \o "." \o part))
                ELSE FixParts(comment_parts, i + 1, Append(fixed_parts, part))
         ELSE FixParts(comment_parts, i + 1, Append(fixed_parts, part))

\* The body of "if comma_count > column_count": the repaired line, or the
\* exception raised.
FixCommaLine(line) ==
    LET all == Split(line)
        first_parts == SubSeq(all, 1, FirstPartsCount)
        comment_parts == SubSeq(all, FirstPartsCount + 1, Len(all) - EndPartsCount)
        end_parts == SubSeq(all, Len(all) - EndPartsCount + 1, Len(all))
        fixed == FixParts(comment_parts, 2, <<comment_parts[1]>>)
    IN
    IF fixed.raised # "none" THEN fixed
    ELSE IF Len(fixed.parts) > 2 THEN [raised |-> "ValueError", parts |-> <<>>]
    ELSE [raised |-> "none",
          parts |-> Split(Join(first_parts \o fixed.parts \o end_parts))]

\* header_line = next(rows); fixed_lines = [header_line]
CcHeader ==
    /\ pc = "cc_start"
    /\ fixed_lines' = << Head(reader) >>
    /\ reader' = Tail(reader)
    /\ pc' = "cc_loop"
    /\ UNCHANGED <<csv_in, raised, tableVars, df, nameVars,
                   categoryVars>>

\* column_count = ",".join(header_line).count(",")
ColumnCount == CountCommas(Join(fixed_lines[1]))

\* a line with no more commas than the header: joined and split again
CcKeepLine ==
    /\ pc = "cc_loop"
    /\ reader # <<>>
    /\ CountCommas(Join(Head(reader))) <= ColumnCount
    /\ fixed_lines' = Append(fixed_lines, Split(Join(Head(reader))))
    /\ reader' = Tail(reader)
    /\ UNCHANGED <<pc, csv_in, raised, tableVars, df, nameVars,
                   categoryVars>>

\* a line where a comma was written in the set or the session comment
CcFixLine ==
    /\ pc = "cc_loop"
    /\ reader # <<>>
    /\ CountCommas(Join(Head(reader))) > ColumnCount
    /\ LET fixed == FixCommaLine(Join(Head(reader))) IN
       IF fixed.raised # "none"
         THEN /\ raised' = fixed.raised
              /\ pc' = "cc_raised"
              /\ UNCHANGED fixed_lines
         ELSE /\ fixed_lines' = Append(fixed_lines, fixed.parts)
              /\ UNCHANGED <<pc, raised>>
    /\ reader' = Tail(reader)
    /\ UNCHANGED <<csv_in, tableVars, df, nameVars,
                   categoryVars>>

\* return fixed_lines
CcReturn ==
    /\ pc = "cc_loop"
    /\ reader = <<>>
    /\ pc' = "cc_returned"
    /\ UNCHANGED <<csvVars, tableVars, df, nameVars,
                   categoryVars>>

\* The export: a header of 18 columns, the set comment and the session
\* comment in columns 15 and 16, and up to MaxCommaRows data rows. The app
\* writes a comment as it was typed, so csv.reader splits it at its commas.
MaxCommaRows == 2
CcHeaderRow ==
    <<"Date", "h2", "h3", "h4", "h5", "h6", "h7", "h8", "h9", "h10", "h11",
      "h12", "h13", "h14", "Set Comment", "Session Comment", "h17", "h18">>
CcFirstFields ==
    <<"2022-04-18", "a", "b", "c", "d", "e", "f", "g", "h", "i", "j", "k",
      "l", "m">>
CcEndFields == <<"y", "z">>
CcComments == {"", "slow, heavy", "2,5", "a,b", "7", "8 of 10"}
CcRows ==
    {CcFirstFields \o Split(set_comment) \o Split(session_comment)
         \o CcEndFields :
        set_comment \in CcComments, session_comment \in CcComments}

InitComma ==
    /\ pc = "cc_start"
    /\ \E data \in SeqsUpTo(CcRows, MaxCommaRows) : csv_in = <<CcHeaderRow>> \o data
    /\ reader = csv_in
    /\ fixed_lines = <<>>
    /\ raised = "none"
    /\ IdleTables
    /\ df = Idle
    /\ IdleNames
    /\ IdleCategories

NextComma ==
    \/ CcHeader
    \/ CcKeepLine
    \/ CcFixLine
    \/ CcReturn

SpecComma == InitComma /\ [][NextComma]_vars

---------------------------------------------------------------------------
(* C2 *)

\* C2: after replace_comma_in_comments returns, every data row has exactly
\* as many fields as the header row.
C2_RowsHaveHeaderWidth ==
    pc = "cc_returned" =>
        \A r \in 2..Len(fixed_lines) : Len(fixed_lines[r]) = Len(fixed_lines[1])

---------------------------------------------------------------------------
(* The GymBook table: remove_skipped_sets and extend_gymbook_df *)

\* an empty cell of a table
NaN == "NaN"

\* A Time is a number of seconds; a calendar day has SecondsPerDay of them.
SecondsPerDay == 86400
\* Time.dt.date
DateOf(t) == t \div SecondsPerDay
\* Timedelta.seconds: the seconds of a time difference beyond its whole days
TimedeltaSeconds(td) == td % SecondsPerDay

Max(S) == CHOOSE x \in S : \A y \in S : y <= x
Min(S) == CHOOSE x \in S : \A y \in S : x <= y

\* RemoveSkippedSets with a slip: the rows are dropped by position in the
\* list of skipped sets instead of by their own label
RemoveSkippedSetsByPosition(d) ==
    LET skipped == SelectSeq(d, LAMBDA r : r.Ausgelassen = "Ja")
        labels == {i - 1 : i \in 1..Len(skipped)}
    IN  SelectSeq(d, LAMBDA r : r.index \notin labels)

\* skipped_sets = df[df["Ausgelassen"] == "Ja"]
\* df.drop(skipped_sets.index, errors="ignore"): the rows are dropped by
\* their index label
RemoveSkippedSets(d) ==
    LET skipped_sets == SelectSeq(d, LAMBDA r : r.Ausgelassen = "Ja")
        labels == {skipped_sets[i].index : i \in 1..Len(skipped_sets)}
    IN  SelectSeq(d, LAMBDA r : r.index \notin labels)

\* SessionDuration with a slip: the difference is taken over the whole table
SessionDurationNoGroup(d, i) ==
    LET times == {d[j].Time : j \in 1..Len(d)}
    IN  TimedeltaSeconds(Max(times) - Min(times))

\* df.groupby(df["Time"].dt.date)["Time"]
\*     .transform(lambda x: x.max() - x.min()).dt.seconds, for row i
SessionDuration(d, i) ==
    LET times == {d[j].Time : j \in {k \in 1..Len(d) :
                                DateOf(d[k].Time) = DateOf(d[i].Time)}}
    IN  TimedeltaSeconds(Max(times) - Min(times))

\* SetOrder with a slip: the sets are grouped by date alone
SetOrderByDate(d, i) ==
    Cardinality({j \in 1..(i - 1) : DateOf(d[j].Time) = DateOf(d[i].Time)}) + 1

\* df.groupby([df["Time"].dt.date, "Exercise Name"]).cumcount() + 1, for row i
SetOrder(d, i) ==
    Cardinality({j \in 1..(i - 1) :
                    /\ DateOf(d[j].Time) = DateOf(d[i].Time)
                    /\ d[j].ExerciseName = d[i].ExerciseName}) + 1

\* extend_gymbook_df: the columns "Session Duration (s)" and "Set Order"
ExtendGymbookDf(d) ==
    [i \in 1..Len(d) |->
        [index |-> d[i].index,
         Ausgelassen |-> d[i].Ausgelassen,
         Time |-> d[i].Time,
         ExerciseName |-> d[i].ExerciseName,
         SessionDuration |-> SessionDuration(d, i),
         SetOrder |-> SetOrder(d, i)]]

\* df_gymbook = read_csv(file2, GYMBOOK_NAME)
GbLoad ==
    /\ pc = "gb_start"
    /\ df_gymbook' = file_gymbook
    /\ pc' = "gb_loaded"
    /\ UNCHANGED <<csvVars, file_gymbook, file_progression, df_progression,
                   df, nameVars,
                   categoryVars>>

\* df_gymbook = remove_skipped_sets(df_gymbook)
GbRemoveSkippedSets ==
    /\ pc = "gb_loaded"
    /\ df_gymbook' = RemoveSkippedSets(df_gymbook)
    /\ pc' = "gb_cleaned"
    /\ UNCHANGED <<csvVars, file_gymbook, file_progression, df_progression,
                   df, nameVars,
                   categoryVars>>

\* df_gymbook = extend_gymbook_df(df_gymbook)
GbExtend ==
    /\ pc = "gb_cleaned"
    /\ df_gymbook' = ExtendGymbookDf(df_gymbook)
    /\ pc' = "gb_extended"
    /\ UNCHANGED <<csvVars, file_gymbook, file_progression, df_progression,
                   df, nameVars,
                   categoryVars>>

\* The GymBook export: up to MaxSets sets, one per line. read_csv numbers
\* the rows 0, 1, 2, ... (the index). The times are 10:00 and 11:30 of one
\* day and 10:00 of the next.
MaxSets == 3
GbTimes == {36000, 41400, 122400}
GbExercises == {"Barbell Squats", "Leg Press"}
GbSkipped == {"Ja", "Nein", NaN}
GbCells == [Ausgelassen : GbSkipped, Time : GbTimes, ExerciseName : GbExercises]
GbTable(cells) ==
    [i \in 1..Len(cells) |->
        [index |-> i - 1,
         Ausgelassen |-> cells[i].Ausgelassen,
         Time |-> cells[i].Time,
         ExerciseName |-> cells[i].ExerciseName]]

InitGymbook ==
    /\ pc = "gb_start"
    /\ \E cells \in SeqsUpTo(GbCells, MaxSets) : file_gymbook = GbTable(cells)
    /\ df_gymbook = Idle
    /\ file_progression = Idle
    /\ df_progression = Idle
    /\ df = Idle
    /\ IdleCsv
    /\ IdleNames
    /\ IdleCategories

NextGymbook ==
    \/ GbLoad
    \/ GbRemoveSkippedSets
    \/ GbExtend

SpecGymbook == InitGymbook /\ [][NextGymbook]_vars

---------------------------------------------------------------------------
(* C6, C8, C9 *)

GbRows == 1..Len(df_gymbook)
GbSameDate(i, j) == DateOf(df_gymbook[i].Time) = DateOf(df_gymbook[j].Time)
GbSameGroup(i, j) ==
    /\ GbSameDate(i, j)
    /\ df_gymbook[i].ExerciseName = df_gymbook[j].ExerciseName

\* C6: remove_skipped_sets returns exactly the rows whose "Ausgelassen" is
\* not "Ja", in their original order and with their values unchanged.
C6_OnlySkippedSetsRemoved ==
    pc = "gb_cleaned" =>
        /\ \A i \in GbRows : df_gymbook[i].Ausgelassen # "Ja"
        /\ \A k \in 1..Len(file_gymbook) :
              file_gymbook[k].Ausgelassen # "Ja" =>
                  \E i \in GbRows : df_gymbook[i] = file_gymbook[k]
        /\ \A i \in GbRows : \E k \in 1..Len(file_gymbook) :
              df_gymbook[i] = file_gymbook[k]
        /\ \A i, j \in GbRows :
              i < j => df_gymbook[i].index < df_gymbook[j].index

\* a skipped set between two performed ones was removed
C6_Witness ==
    /\ pc = "gb_cleaned"
    /\ Len(file_gymbook) = 3
    /\ file_gymbook[1].Ausgelassen = NaN
    /\ file_gymbook[2].Ausgelassen = "Ja"
    /\ file_gymbook[3].Ausgelassen = "Nein"
    /\ Len(df_gymbook) = 2

\* C8: every set carries the number of seconds between the earliest and the
\* latest set of its calendar date; the sets of one date carry the same
\* value, and a date with a single set has duration 0.
C8_SessionDurationOfDate ==
    pc = "gb_extended" =>
        \A i \in GbRows :
            /\ \E a, b \in {j \in GbRows : GbSameDate(i, j)} :
                  /\ \A j \in GbRows : GbSameDate(i, j) =>
                        /\ df_gymbook[a].Time <= df_gymbook[j].Time
                        /\ df_gymbook[j].Time <= df_gymbook[b].Time
                  /\ df_gymbook[i].SessionDuration
                        = df_gymbook[b].Time - df_gymbook[a].Time
            /\ \A j \in GbRows : GbSameDate(i, j) =>
                  df_gymbook[j].SessionDuration = df_gymbook[i].SessionDuration
            /\ (\A j \in GbRows : GbSameDate(i, j) => j = i) =>
                  df_gymbook[i].SessionDuration = 0

\* two sets of one day 90 minutes apart and a single set on the next day
C8_Witness ==
    /\ pc = "gb_extended"
    /\ Len(df_gymbook) = 3
    /\ df_gymbook[1].SessionDuration = 5400
    /\ df_gymbook[2].SessionDuration = 5400
    /\ df_gymbook[3].SessionDuration = 0
    /\ df_gymbook[1].Time # df_gymbook[2].Time

\* C9: within each group of k sets that share a date and an Exercise Name
\* the Set Order values are exactly 1..k, each used once and increasing in
\* row order.
C9_SetOrderNumbersGroup ==
    pc = "gb_extended" =>
        \A i \in GbRows :
            LET group == {j \in GbRows : GbSameGroup(i, j)} IN
            /\ {df_gymbook[j].SetOrder : j \in group} = 1..Cardinality(group)
            /\ \A j, k \in group :
                  j < k => df_gymbook[j].SetOrder < df_gymbook[k].SetOrder

\* two sets of one exercise with a set of another exercise between them
C9_Witness ==
    /\ pc = "gb_extended"
    /\ Len(df_gymbook) = 3
    /\ GbSameDate(1, 2) /\ GbSameDate(2, 3)
    /\ df_gymbook[1].ExerciseName = df_gymbook[3].ExerciseName
    /\ df_gymbook[1].ExerciseName # df_gymbook[2].ExerciseName
    /\ df_gymbook[1].SetOrder = 1
    /\ df_gymbook[2].SetOrder = 1
    /\ df_gymbook[3].SetOrder = 2

---------------------------------------------------------------------------
(* convert_columns and the merge of the two tables *)

DigitValue(c) ==
    CASE c = "0" -> 0 [] c = "1" -> 1 [] c = "2" -> 2 [] c = "3" -> 3
      [] c = "4" -> 4 [] c = "5" -> 5 [] c = "6" -> 6 [] c = "7" -> 7
      [] c = "8" -> 8 [] c = "9" -> 9

\* int(s) for a string of digits
RECURSIVE ToInt(_)
ToInt(s) ==
    IF s = "" THEN 0
    ELSE 10 * ToInt(DropLast(s, 1)) + DigitValue(Char(s, Len(s)))

RECURSIVE Pow10(_)
Pow10(n) == IF n = 0 THEN 1 ELSE 10 * Pow10(n - 1)

\* the end of the longest run of digits of s that starts at i
DigitRunEnd(s, i) ==
    Max({j \in i..Len(s) : \A k \in i..j : IsDigit(Char(s, k))})

\* A float is the exact fraction num / den; the float NaN has den 0.
Float(n, d) == [num |-> n, den |-> d]
FloatNaN == [num |-> 0, den |-> 0]
\* a == b: NaN equals nothing
FloatEq(a, b) == a.den # 0 /\ b.den # 0 /\ a.num * b.den = b.num * a.den

\* Series.str.extract("(\d+)"): the first run of digits, NaN without one
ExtractDigits(s) ==
    IF s = NaN \/ ~\E i \in 1..Len(s) : IsDigit(Char(s, i)) THEN NaN
    ELSE LET i == Min({k \in 1..Len(s) : IsDigit(Char(s, k))})
         IN  SubSeq(s, i, DigitRunEnd(s, i))

\* a match of "\d+,\d+" starts at i: the digits from i on end at a comma
\* that a digit follows
DecimalAt(s, i) ==
    /\ IsDigit(Char(s, i))
    /\ DigitRunEnd(s, i) + 2 <= Len(s)
    /\ Char(s, DigitRunEnd(s, i) + 1) = ","
    /\ IsDigit(Char(s, DigitRunEnd(s, i) + 2))

\* Series.str.extract("(\d+,\d+)"): the leftmost match, NaN without one
ExtractDecimal(s) ==
    IF s = NaN \/ ~\E i \in 1..Len(s) : DecimalAt(s, i) THEN NaN
    ELSE LET i == Min({k \in 1..Len(s) : DecimalAt(s, k)})
             e == DigitRunEnd(s, i)
         IN  SubSeq(s, i, DigitRunEnd(s, e + 2))

\* .replace(",", ".", regex=True)
RECURSIVE ReplaceCommaByDot(_)
ReplaceCommaByDot(s) ==
    IF s = NaN \/ s = "" THEN s
    ELSE (IF Char(s, 1) = "," THEN "." ELSE Char(s, 1))
             \o ReplaceCommaByDot(SubSeq(s, 2, Len(s)))

\* .astype(float) of NaN or of digits with an optional "." and digits
AsFloat(s) ==
    IF s = NaN THEN FloatNaN
    ELSE IF \E i \in 1..Len(s) : Char(s, i) = "."
      THEN LET i == CHOOSE k \in 1..Len(s) : Char(s, k) = "."
               frac == SubSeq(s, i + 1, Len(s))
           IN  Float(ToInt(SubSeq(s, 1, i - 1)) * Pow10(Len(frac)) + ToInt(frac),
                     Pow10(Len(frac)))
      ELSE Float(ToInt(s), 1)

\* df["Weight"].str.extract("(\d+,\d+)").replace(",", ".", regex=True)
\*     .astype(float), for one cell
ConvertWeight(text) == AsFloat(ReplaceCommaByDot(ExtractDecimal(text)))

\* convert_columns; astype(int) raises on a cell without digits
ConvertColumns(d) ==
    IF \E i \in 1..Len(d) : ExtractDigits(d[i].Repetitions) = NaN
      THEN [raised |-> "ValueError", table |-> d]
      ELSE [raised |-> "none",
            table |-> [i \in 1..Len(d) |->
                [index |-> d[i].index,
                 Time |-> d[i].Time,
                 Repetitions |-> ToInt(ExtractDigits(d[i].Repetitions)),
                 Weight |-> ConvertWeight(d[i].Weight)]]]

\* pd.concat([df_progression, df_gymbook]); source tells the rows of the
\* two tables apart, whose index labels overlap
Concat(p, g) ==
    [i \in 1..Len(p) |-> [source |-> "progression", index |-> p[i].index,
        Time |-> p[i].Time, Repetitions |-> p[i].Repetitions,
        Weight |-> p[i].Weight]]
    \o
    [i \in 1..Len(g) |-> [source |-> "gymbook", index |-> g[i].index,
        Time |-> g[i].Time, Repetitions |-> g[i].Repetitions,
        Weight |-> g[i].Weight]]

\* the sorted table sorted with row r put in
InsertByTimeDescending(sorted, r) ==
    LET before == SelectSeq(sorted, LAMBDA x : x.Time >= r.Time)
        after == SelectSeq(sorted, LAMBDA x : x.Time < r.Time)
    IN  before \o <<r>> \o after

InsertByTimeAscending(sorted, r) ==
    LET before == SelectSeq(sorted, LAMBDA x : x.Time <= r.Time)
        after == SelectSeq(sorted, LAMBDA x : x.Time > r.Time)
    IN  before \o <<r>> \o after

\* SortValuesByTime with a slip: ascending=False is left out
RECURSIVE SortValuesByTimeAscending(_)
SortValuesByTimeAscending(d) ==
    IF d = <<>> THEN <<>>
    ELSE InsertByTimeAscending(SortValuesByTimeAscending(DropLast(d, 1)), d[Len(d)])

\* df.sort_values("Time", ascending=False). Rows of equal Time keep their
\* order here; pandas' default quicksort leaves their order open.
RECURSIVE SortValuesByTime(_)
SortValuesByTime(d) ==
    IF d = <<>> THEN <<>>
    ELSE InsertByTimeDescending(SortValuesByTime(DropLast(d, 1)), d[Len(d)])

\* df["Weight"].fillna(0).astype(float)
FillWeight(d) ==
    [i \in 1..Len(d) |->
        [d[i] EXCEPT !.Weight = IF @ = FloatNaN THEN Float(0, 1) ELSE @]]

\* df_progression, df_gymbook = the two tables as loaded
UnLoad ==
    /\ pc = "un_start"
    /\ df_gymbook' = file_gymbook
    /\ df_progression' = file_progression
    /\ pc' = "un_loaded"
    /\ UNCHANGED <<csvVars, file_gymbook, file_progression, df, nameVars,
                   categoryVars>>

\* df_gymbook = adapt_columns(df_gymbook)
UnAdaptColumns ==
    /\ pc = "un_loaded"
    /\ LET converted == ConvertColumns(df_gymbook) IN
       IF converted.raised # "none"
         THEN /\ raised' = converted.raised
              /\ pc' = "un_raised"
              /\ UNCHANGED df_gymbook
         ELSE /\ df_gymbook' = converted.table
              /\ pc' = "un_adapted"
              /\ UNCHANGED raised
    /\ UNCHANGED <<csv_in, reader, fixed_lines, file_gymbook, file_progression,
                   df_progression, df, nameVars,
                   categoryVars>>

\* df = pd.concat(...); df = df.sort_values(...); df["Weight"] = ...fillna(0)
UnMerge ==
    /\ pc = "un_adapted"
    /\ df' = FillWeight(SortValuesByTime(Concat(df_progression, df_gymbook)))
    /\ pc' = "un_merged"
    /\ UNCHANGED <<csvVars, tableVars, nameVars,
                   categoryVars>>

\* The two exports: up to MaxUnifyRows sets each. GymBook writes the
\* repetitions and the weight as text, Progression as numbers (read with
\* decimal=","); a set without weight has an empty cell.
MaxUnifyRows == 2
UnTimes == {36000, 41400}
UnGymbookCells ==
    {[Repetitions |-> "8", Weight |-> "80,5 kg"],
     [Repetitions |-> "10", Weight |-> "80 kg"],
     [Repetitions |-> "12", Weight |-> "7,25 kg"],
     [Repetitions |-> "30 s", Weight |-> NaN],
     [Repetitions |-> NaN, Weight |-> NaN]}
UnProgressionCells ==
    {[Repetitions |-> 5, Weight |-> Float(625, 10)],
     [Repetitions |-> 20, Weight |-> FloatNaN]}
UnTable(cells, times) ==
    [i \in 1..Len(cells) |->
        [index |-> i - 1,
         Time |-> times[i],
         Repetitions |-> cells[i].Repetitions,
         Weight |-> cells[i].Weight]]

InitUnify ==
    /\ pc = "un_start"
    /\ \E n \in 0..MaxUnifyRows :
         \E cells \in [1..n -> UnGymbookCells], times \in [1..n -> UnTimes] :
            file_gymbook = UnTable(cells, times)
    /\ \E n \in 0..MaxUnifyRows :
         \E cells \in [1..n -> UnProgressionCells], times \in [1..n -> UnTimes] :
            file_progression = UnTable(cells, times)
    /\ df_gymbook = Idle
    /\ df_progression = Idle
    /\ df = Idle
    /\ IdleCsv
    /\ IdleNames
    /\ IdleCategories

NextUnify ==
    \/ UnLoad
    \/ UnAdaptColumns
    \/ UnMerge

SpecUnify == InitUnify /\ [][NextUnify]_vars

---------------------------------------------------------------------------
(* C5, C7 *)

\* the rows of the unified table that are row k of the table of source src
UnCopies(src, k) ==
    {i \in 1..Len(df) : df[i].source = src /\ df[i].index = k - 1}

\* C5: the unified table holds every row of both tables exactly once (its
\* row count is the sum of theirs) and no row has a later Time than the row
\* before it.
C5_UnifiedTableComplete ==
    pc = "un_merged" =>
        /\ Len(df) = Len(df_progression) + Len(df_gymbook)
        /\ \A k \in 1..Len(df_progression) :
              /\ Cardinality(UnCopies("progression", k)) = 1
              /\ \A i \in UnCopies("progression", k) :
                    /\ df[i].Time = df_progression[k].Time
                    /\ df[i].Repetitions = df_progression[k].Repetitions
        /\ \A k \in 1..Len(df_gymbook) :
              /\ Cardinality(UnCopies("gymbook", k)) = 1
              /\ \A i \in UnCopies("gymbook", k) :
                    /\ df[i].Time = df_gymbook[k].Time
                    /\ df[i].Repetitions = df_gymbook[k].Repetitions
        /\ \A i \in 1..(Len(df) - 1) : df[i].Time >= df[i + 1].Time

\* two rows of each table, the later set of each table listed second
C5_Witness ==
    /\ pc = "un_merged"
    /\ Len(df_progression) = 2
    /\ Len(df_gymbook) = 2
    /\ df_progression[1].Time < df_progression[2].Time
    /\ df_gymbook[1].Time < df_gymbook[2].Time
    /\ Len(df) = 4

\* the text is digits, optionally "," and digits, and then " kg"
IsKgText(text) ==
    /\ text # NaN
    /\ Len(text) >= 4
    /\ LastChars(text, 3) = " kg"
    /\ LET number == DropLast(text, 3) IN
       /\ IsDigit(Char(number, 1))
       /\ IsDigit(Char(number, Len(number)))
       /\ \A i \in 1..Len(number) :
             IsDigit(Char(number, i)) \/ Char(number, i) = ","
       /\ Cardinality({i \in 1..Len(number) : Char(number, i) = ","}) <= 1

\* the number that a text "80,5 kg" or "80 kg" states
KgNumber(text) ==
    LET number == DropLast(text, 3)
        e == DigitRunEnd(number, 1)
        frac == SubSeq(number, e + 2, Len(number))
    IN  Float(ToInt(SubSeq(number, 1, e)) * Pow10(Len(frac)) + ToInt(frac),
              Pow10(Len(frac)))

\* C7: in the unified table the Weight of a GymBook set whose text is a
\* number followed by "kg" is that number, and a GymBook set has Weight 0
\* only when its export carried no weight.
C7_WeightKeepsNumber ==
    pc = "un_merged" =>
        \A i \in 1..Len(df) :
            df[i].source = "gymbook" =>
                LET text == file_gymbook[df[i].index + 1].Weight IN
                /\ IsKgText(text) => FloatEq(df[i].Weight, KgNumber(text))
                /\ FloatEq(df[i].Weight, Float(0, 1)) => text = NaN

---------------------------------------------------------------------------
(* singularize and the renaming of the exercises *)

\* sub in s
Contains(s, sub) ==
    \E i \in 1..(Len(s) - Len(sub) + 1) : SubSeq(s, i, i + Len(sub) - 1) = sub

\* s.replace(old, new): every occurrence, from the left, without overlap
RECURSIVE StrReplace(_, _, _)
StrReplace(s, old, new) ==
    IF Len(s) < Len(old) THEN s
    ELSE IF SubSeq(s, 1, Len(old)) = old
      THEN new \o StrReplace(SubSeq(s, Len(old) + 1, Len(s)), old, new)
      ELSE Char(s, 1) \o StrReplace(SubSeq(s, 2, Len(s)), old, new)

\* plural_exceptions = {"Lunges", "Raises"}
plural_exceptions == {"Lunges", "Raises"}

\* the names that get an entry in singles
SingularizeKeys(exercises) ==
    {e \in exercises :
        \/ LastChars(e, 2) = "es"
        \/ (LastChars(e, 1) = "s" /\ LastChars(e, 2) # "ss")}

\* the entry of singles for exercise
SingularReplacement(exercise) ==
    IF LastChars(exercise, 2) = "es" THEN DropLast(exercise, 2)
    ELSE DropLast(exercise, 1)

\* singularize(exercises). The second loop visits the set plural_exceptions
\* in an order the code does not fix; order is the order it took. Every
\* exception found in the name overwrites the entry, so the last one stays.
Singularize(exercises, order) ==
    [exercise \in SingularizeKeys(exercises) |->
        LET found == SelectSeq(order, LAMBDA exception : Contains(exercise, exception))
        IN  IF found = <<>> THEN SingularReplacement(exercise)
            ELSE LET exception == found[Len(found)] IN
                 StrReplace(exercise, DropLast(exception, 2), DropLast(exception, 1))]

\* Convert some gymbook names to progression names
map_gymbook_to_progression ==
       "Ab Wheel" :> "Ab Roller"
    @@ "Alternating Dumbbell Preacher Curl" :> "Alternating Dumbbell Curl"
    @@ "Arnold Press" :> "Arnold Dumbbell Press (Seated)"
    @@ "Back Extension" :> "Machine Hyperextension"
    @@ "Bulgarian Split Squat " :> "Bulgarian Split Squat"
    @@ "Cable Fly" :> "Cable Back Fly"
    @@ "Calf Press in Leg Press" :> "Machine Calf Press"
    @@ "Chin-Up" :> "Chinup"
    @@ "Concentration Curl" :> "Dumbbell Concentration Curl"
    @@ "Crunch" :> "Weighted Crunch"
    @@ "Decline Push-Up" :> "Decline Pushup"
    @@ "Dumbbell Lateral Raise" :> "Dumbbell Side Raise"
    @@ "Dumbbell Press" :> "Dumbbell Shoulder Press"
    @@ "Dumbbell Row" :> "Bent-Over Dumbbell Row"
    @@ "Dumbbell Skullcrusher" :> "Lying Dumbbell Skull Crusher"
    @@ "Hammer Curl" :> "Dumbbell Hammer Curl"
    @@ "Kneeling Cable Crunch" :> "Cable Crunch"
    @@ "Lat Pull-Down" :> "Machine Lat Pulldown"
    @@ "Leg Extension" :> "Machine Leg Extension"
    @@ "Leg Press" :> "Machine Leg Press"
    @@ "Low Cable One-Arm Lateral Raise" :> "Cable Side Raise"
    @@ "Lying Dumbbell Triceps Extension" :> "Dumbbell Triceps Extension"
    @@ "Lying EZ-Bar Triceps Extension" :> "Lying Barbell Skull Crusher"
    @@ "Lying Leg Curl" :> "Machine Lying Leg Curl"
    @@ "Machine Back Extension" :> "Machine Hyperextension"
    @@ "Machine Hip Abduction" :> "Machine Thigh Abduction (Out)"
    @@ "Machine Trunk Rotation" :> "Torso Rotation Machine"
    @@ "One-Leg Leg Extension" :> "Machine Single-Leg Extension"
    @@ "Power Clean" :> "Barbell Power Clean"
    @@ "Pullups Weighted " :> "Weighted Pullup"
    @@ "Push Down" :> "Cable Pushdown (with Bar Handle)"
    @@ "Push Press" :> "Barbell Push Press"
    @@ "Push-Up" :> "Pushup"
    @@ "Seated Leg Curl" :> "Machine Leg Curl"
    @@ "Seated Machine Hip Abduction" :> "Machine Thigh Abduction (Out)"
    @@ "Seated Machine Row" :> "Machine Row"
    @@ "Standing Calf Raise" :> "Machine Calf Raise"
    @@ "Standing Machine Calf Raise" :> "Machine Calf Raise"
    @@ "Wide-Grip Lat Pull-Down" :> "Wide-Grip Machine Lat Pulldown"

\* Convert some progression names to gymbook names
map_progression_to_gymbook ==
       "Barbell Curl" :> "EZ-Bar Curl"
    @@ "Bent-Over Barbell Row" :> "Barbell Row"
    @@ "Butterfly Reverse" :> "Reverse Machine Fly"
    @@ "Cable Row" :> "Seated Cable Row"
    @@ "Dumbbell Pullover (Targeting back)" :> "Dumbbell Lat Pullover"
    @@ "Farmer's Walk (with Dumbbells)" :> "Farmers Walk"
    @@ "Farmer's Walk (with Weight Plate)" :> "Farmers Walk"
    @@ "Machine Calf Press" :> "Calf Press In Leg Press"
    @@ "Press around" :> "Press Around"
    @@ "Romanian Deadlift" :> "Barbell Romanian Deadlift"
    @@ "Stiff-Leg Deadlift (Wide Stance)" :> "Straight-Leg Barbell Deadlift"
    @@ "Sumo Deadlift" :> "Barbell Sumo Deadlift"
    @@ "Weighted pistol squat" :> "Pistol squat"

\* Convert some names to a value, which is in neither dataframe
map_rename_in_both ==
       "Close-Grip Lat Pull-Down" :> "Close-Grip Machine Lat Pull-Down"
    @@ "Machine Bench Press" :> "Seated Machine Bench Press"
    @@ "Parallel Bar Dip" :> "Dip"
    @@ "Barbell Shrug (Behind the Back)" :> "Barbell Shrug"
    @@ "Chest Dip" :> "Dip"


\* ReplaceNames with a slip: replace without inplace=True changes nothing
ReplaceNamesNotInplace(d, map) == d

\* df["Exercise Name"].replace(map, inplace=True): a name that is a key of
\* map is replaced by its value, once
ReplaceNames(d, map) ==
    [i \in 1..Len(d) |->
        [d[i] EXCEPT !.ExerciseName = IF @ \in DOMAIN map THEN map[@] ELSE @]]

\* pd.concat([df_progression, df_gymbook])
NmConcat ==
    /\ pc = "nm_start"
    /\ df' = [i \in 1..Len(df_progression) |->
                 [source |-> "progression", index |-> df_progression[i].index,
                  ExerciseName |-> df_progression[i].ExerciseName]]
             \o
             [i \in 1..Len(df_gymbook) |->
                 [source |-> "gymbook", index |-> df_gymbook[i].index,
                  ExerciseName |-> df_gymbook[i].ExerciseName]]
    /\ pc' = "nm_merged"
    /\ UNCHANGED <<csvVars, tableVars, nameVars,
                   categoryVars>>

\* map_gymbook_plural_to_singular = singularize(set(df_gymbook["Exercise Name"]))
NmSingularize ==
    /\ pc = "nm_merged"
    /\ exercises_gymbook' =
           {df_gymbook[i].ExerciseName : i \in 1..Len(df_gymbook)}
    /\ \E order \in {<<"Lunges", "Raises">>, <<"Raises", "Lunges">>} :
           map_gymbook_plural_to_singular' = Singularize(exercises_gymbook', order)
    /\ pc' = "nm_singularized"
    /\ UNCHANGED <<csvVars, tableVars, df, categoryVars>>

\* df["Exercise Name"].replace(map_gymbook_plural_to_singular, inplace=True)
NmReplacePlural ==
    /\ pc = "nm_singularized"
    /\ df' = ReplaceNames(df, map_gymbook_plural_to_singular)
    /\ pc' = "nm_singular"
    /\ UNCHANGED <<csvVars, tableVars, nameVars,
                   categoryVars>>

\* df["Exercise Name"].replace(map_gymbook_to_progression, inplace=True)
NmReplaceGymbookToProgression ==
    /\ pc = "nm_singular"
    /\ df' = ReplaceNames(df, map_gymbook_to_progression)
    /\ pc' = "nm_progression"
    /\ UNCHANGED <<csvVars, tableVars, nameVars,
                   categoryVars>>

\* df["Exercise Name"].replace(map_progression_to_gymbook, inplace=True)
NmReplaceProgressionToGymbook ==
    /\ pc = "nm_progression"
    /\ df' = ReplaceNames(df, map_progression_to_gymbook)
    /\ pc' = "nm_gymbook"
    /\ UNCHANGED <<csvVars, tableVars, nameVars,
                   categoryVars>>

\* df["Exercise Name"].replace(map_rename_in_both, inplace=True)
NmReplaceRenameInBoth ==
    /\ pc = "nm_gymbook"
    /\ df' = ReplaceNames(df, map_rename_in_both)
    /\ pc' = "nm_done"
    /\ UNCHANGED <<csvVars, tableVars, nameVars,
                   categoryVars>>

\* The exercises of the two exports: every name the three tables mention
\* (NmTableNames, keys and values in the tables' order) occurs in both, and
\* the GymBook export has up to MaxPlural further names.
MaxPlural == 3
NmTableNames ==
    <<"Ab Wheel", "Ab Roller", "Alternating Dumbbell Preacher Curl",
      "Alternating Dumbbell Curl", "Arnold Press",
      "Arnold Dumbbell Press (Seated)", "Back Extension",
      "Machine Hyperextension", "Bulgarian Split Squat ",
      "Bulgarian Split Squat", "Cable Fly", "Cable Back Fly",
      "Calf Press in Leg Press", "Machine Calf Press", "Chin-Up", "Chinup",
      "Concentration Curl", "Dumbbell Concentration Curl", "Crunch",
      "Weighted Crunch", "Decline Push-Up", "Decline Pushup",
      "Dumbbell Lateral Raise", "Dumbbell Side Raise", "Dumbbell Press",
      "Dumbbell Shoulder Press", "Dumbbell Row", "Bent-Over Dumbbell Row",
      "Dumbbell Skullcrusher", "Lying Dumbbell Skull Crusher",
      "Hammer Curl", "Dumbbell Hammer Curl", "Kneeling Cable Crunch",
      "Cable Crunch", "Lat Pull-Down", "Machine Lat Pulldown",
      "Leg Extension", "Machine Leg Extension", "Leg Press",
      "Machine Leg Press", "Low Cable One-Arm Lateral Raise",
      "Cable Side Raise", "Lying Dumbbell Triceps Extension",
      "Dumbbell Triceps Extension", "Lying EZ-Bar Triceps Extension",
      "Lying Barbell Skull Crusher", "Lying Leg Curl",
      "Machine Lying Leg Curl", "Machine Back Extension",
      "Machine Hip Abduction", "Machine Thigh Abduction (Out)",
      "Machine Trunk Rotation", "Torso Rotation Machine",
      "One-Leg Leg Extension", "Machine Single-Leg Extension",
      "Power Clean", "Barbell Power Clean", "Pullups Weighted ",
      "Weighted Pullup", "Push Down", "Cable Pushdown (with Bar Handle)",
      "Push Press", "Barbell Push Press", "Push-Up", "Pushup",
      "Seated Leg Curl", "Machine Leg Curl",
      "Seated Machine Hip Abduction", "Seated Machine Row", "Machine Row",
      "Standing Calf Raise", "Machine Calf Raise",
      "Standing Machine Calf Raise", "Wide-Grip Lat Pull-Down",
      "Wide-Grip Machine Lat Pulldown", "Barbell Curl", "EZ-Bar Curl",
      "Bent-Over Barbell Row", "Barbell Row", "Butterfly Reverse",
      "Reverse Machine Fly", "Cable Row", "Seated Cable Row",
      "Dumbbell Pullover (Targeting back)", "Dumbbell Lat Pullover",
      "Farmer's Walk (with Dumbbells)", "Farmers Walk",
      "Farmer's Walk (with Weight Plate)", "Calf Press In Leg Press",
      "Press around", "Press Around", "Romanian Deadlift",
      "Barbell Romanian Deadlift", "Stiff-Leg Deadlift (Wide Stance)",
      "Straight-Leg Barbell Deadlift", "Sumo Deadlift",
      "Barbell Sumo Deadlift", "Weighted pistol squat", "Pistol squat",
      "Close-Grip Lat Pull-Down", "Close-Grip Machine Lat Pull-Down",
      "Machine Bench Press", "Seated Machine Bench Press",
      "Parallel Bar Dip", "Dip", "Barbell Shrug (Behind the Back)",
      "Barbell Shrug", "Chest Dip">>
NmGymbookNames ==
    {"Barbell Squats", "Crunches", "Push-Ups", "Dumbbell Lunges",
     "Lateral Raises", "Lateral Raises with Bands"}
\* the names of S in some order
RECURSIVE SetToSeq(_)
SetToSeq(S) ==
    IF S = {} THEN <<>>
    ELSE LET x == CHOOSE y \in S : TRUE IN <<x>> \o SetToSeq(S \ {x})
NmTable(names) ==
    [i \in 1..Len(names) |-> [index |-> i - 1, ExerciseName |-> names[i]]]

InitNames ==
    /\ pc = "nm_start"
    /\ \E extra \in {S \in SUBSET NmGymbookNames : Cardinality(S) <= MaxPlural} :
           df_gymbook = NmTable(NmTableNames \o SetToSeq(extra))
    /\ df_progression = NmTable(NmTableNames)
    /\ file_gymbook = Idle
    /\ file_progression = Idle
    /\ df = Idle
    /\ IdleCsv
    /\ IdleNames
    /\ IdleCategories

NextNames ==
    \/ NmConcat
    \/ NmSingularize
    \/ NmReplacePlural
    \/ NmReplaceGymbookToProgression
    \/ NmReplaceProgressionToGymbook
    \/ NmReplaceRenameInBoth

SpecNames == InitNames /\ [][NextNames]_vars

---------------------------------------------------------------------------
(* C3, C4, C10 *)

\* the Exercise Name that row i of the unified table had in its own table
NmOriginal(i) ==
    IF df[i].source = "gymbook"
      THEN df_gymbook[df[i].index + 1].ExerciseName
      ELSE df_progression[df[i].index + 1].ExerciseName

\* the final names of the rows whose original name was name
NmFinal(name) ==
    {df[i].ExerciseName : i \in {j \in 1..Len(df) : NmOriginal(j) = name}}

NmReconciled(map) ==
    \A k \in DOMAIN map :
        /\ NmFinal(k) # {}
        /\ NmFinal(map[k]) # {}
        /\ Cardinality(NmFinal(k) \cup NmFinal(map[k])) = 1

\* C3: after the four replacement steps, for every entry k -> v of the
\* three tables the rows that were named k and the rows that were named v
\* carry the same Exercise Name.
C3_AliasesReconciled ==
    pc = "nm_done" =>
        /\ NmReconciled(map_gymbook_to_progression)
        /\ NmReconciled(map_progression_to_gymbook)
        /\ NmReconciled(map_rename_in_both)

\* a name that two tables rename in turn, and the GymBook plural of a name
\* of the first table
C3_Witness ==
    /\ pc = "nm_done"
    /\ NmFinal("Calf Press in Leg Press") = {"Calf Press In Leg Press"}
    /\ NmFinal("Machine Calf Press") = {"Calf Press In Leg Press"}
    /\ NmFinal("Crunches") = {"Weighted Crunch"}
    /\ NmFinal("Crunch") = {"Weighted Crunch"}

EndsWith(s, suffix) == Len(s) >= Len(suffix) /\ LastChars(s, Len(suffix)) = suffix

NmSingularized == pc \notin {"nm_start", "nm_merged"}

\* C4: singularize maps every name that ends in "Lunges" or "Raises" to the
\* name without its final "s".
C4_ExceptionsKeepE ==
    NmSingularized =>
        \A e \in exercises_gymbook :
            (EndsWith(e, "Lunges") \/ EndsWith(e, "Raises")) =>
                /\ e \in DOMAIN map_gymbook_plural_to_singular
                /\ map_gymbook_plural_to_singular[e] = DropLast(e, 1)

\* C10: the result of singularize has a key for exactly the names that end
\* in "s" but not in "ss"; a name ending in "es" that is not one of the
\* exceptions (a name ending in "Lunges" or "Raises") maps to the name
\* without "es", and any other key maps to the name without its final "s".
C10_SingularizeOnlyPlurals ==
    NmSingularized =>
        /\ DOMAIN map_gymbook_plural_to_singular =
              {e \in exercises_gymbook : EndsWith(e, "s") /\ ~EndsWith(e, "ss")}
        /\ \A e \in DOMAIN map_gymbook_plural_to_singular :
              map_gymbook_plural_to_singular[e] =
                  IF /\ EndsWith(e, "es")
                     /\ ~(EndsWith(e, "Lunges") \/ EndsWith(e, "Raises"))
                    THEN DropLast(e, 2)
                    ELSE DropLast(e, 1)

---------------------------------------------------------------------------
(* remove_redundant_columns and the cell that calls it *)

\* A table that loses columns is a record of its columns (df.columns) and
\* its rows; a row is a function from the columns to the cells, and a cell
\* is the text the csv file holds, NaN for an empty one.

\* df[col].nunique() with a slip: NaN counted as a value (dropna=False)
NuniqueWithNaN(d, col) ==
    Cardinality({d.rows[i][col] : i \in 1..Len(d.rows)})

\* df[col].nunique(): the number of distinct values of the column; pandas
\* does not count NaN
Nunique(d, col) ==
    Cardinality({d.rows[i][col] : i \in 1..Len(d.rows)} \ {NaN})

\* df.drop(labels, axis=1, errors="ignore"): a label that is not a column
\* is skipped
DropColumns(d, labels) ==
    LET kept == d.columns \ labels
    IN  [columns |-> kept,
         rows |-> [i \in 1..Len(d.rows) |-> [c \in kept |-> d.rows[i][c]]]]

\* remove_redundant_columns(df, unneeded_columns); of the two lists only the
\* labels matter to drop, so they are sets here
RemoveRedundantColumns(d, unneeded_columns) ==
    LET constant_columns == {col \in d.columns : Nunique(d, col) <= 1}
        redundant_columns == constant_columns \cup unneeded_columns
    IN  DropColumns(d, redundant_columns)

\* df["Repetitions"].fillna(df["Set Duration (s)"], inplace=True): the two
\* columns are aligned on the index, which is the position of the row
FillnaRepetitions(d) ==
    [d EXCEPT !.rows =
        [i \in 1..Len(d.rows) |->
            IF d.rows[i]["Repetitions"] = NaN
              THEN [d.rows[i] EXCEPT
                       !["Repetitions"] = d.rows[i]["Set Duration (s)"]]
              ELSE d.rows[i]]]

\* the columns the cell names in its two calls
GymbookUnneededColumns ==
    {"Muskelgruppen (Primäre)", "Muskelgruppen (Sekundäre)",
     "Satz / Aufwärmsatz / Abkühlungssatz"}
ProgressionUnneededColumns == {"Time", "Set Duration (s)"}

\* df_gymbook = remove_redundant_columns(df_gymbook, [...])
ClRemoveGymbook ==
    /\ pc = "cl_start"
    /\ df_gymbook' = RemoveRedundantColumns(df_gymbook, GymbookUnneededColumns)
    /\ pc' = "cl_gymbook"
    /\ UNCHANGED <<csvVars, file_gymbook, file_progression, df_progression,
                   df, nameVars,
                   categoryVars>>

\* df_progression["Repetitions"].fillna(..., inplace=True)
ClFillRepetitions ==
    /\ pc = "cl_gymbook"
    /\ df_progression' = FillnaRepetitions(df_progression)
    /\ pc' = "cl_filled"
    /\ UNCHANGED <<csvVars, file_gymbook, file_progression, df_gymbook,
                   df, nameVars,
                   categoryVars>>

\* df_progression = remove_redundant_columns(df_progression, [...])
ClRemoveProgression ==
    /\ pc = "cl_filled"
    /\ df_progression' =
           RemoveRedundantColumns(df_progression, ProgressionUnneededColumns)
    /\ pc' = "cl_done"
    /\ UNCHANGED <<csvVars, file_gymbook, file_progression, df_gymbook,
                   df, nameVars,
                   categoryVars>>

MaxColumnRows == 2

\* The rows of a GymBook export: the set is an exercise with or without a
\* note; the export of an older version of the app has no column of the
\* secondary muscle groups.
ClGymbookRow(exercise, note, secondary) ==
    LET row == ("Übung" :> exercise) @@ ("Notizen" :> note)
               @@ ("Muskelgruppen (Primäre)" :>
                      IF exercise = "Plank" THEN "Bauch" ELSE "Beine")
               @@ ("Satz / Aufwärmsatz / Abkühlungssatz" :> "Satz")
    IN  IF secondary THEN row @@ ("Muskelgruppen (Sekundäre)" :> NaN)
                     ELSE row
ClGymbookTables ==
    UNION {
        {[columns |-> DOMAIN ClGymbookRow("Plank", NaN, secondary),
          rows |-> rows] :
            rows \in SeqsUpTo({ClGymbookRow(e, n, secondary) :
                                  e \in {"Plank", "Squat"},
                                  n \in {NaN, "easy"}},
                              MaxColumnRows)} :
        secondary \in BOOLEAN}

\* The rows of a Progression export: a set has repetitions, a duration
\* (a time-based exercise), both or neither.
ClProgressionRow(repetitions, duration) ==
    ("Exercise Name" :> IF duration = NaN THEN "Squat" ELSE "Plank")
    @@ ("Repetitions" :> repetitions) @@ ("Set Duration (s)" :> duration)
    @@ ("Time" :> "10:00")
ClProgressionTables ==
    {[columns |-> DOMAIN ClProgressionRow(NaN, NaN), rows |-> rows] :
        rows \in SeqsUpTo({ClProgressionRow(r, d) :
                              r \in {NaN, "8", "10"}, d \in {NaN, "60"}},
                          MaxColumnRows)}

InitColumns ==
    /\ pc = "cl_start"
    /\ file_gymbook \in ClGymbookTables
    /\ file_progression \in ClProgressionTables
    /\ df_gymbook = file_gymbook
    /\ df_progression = file_progression
    /\ df = Idle
    /\ IdleCsv
    /\ IdleNames
    /\ IdleCategories

NextColumns ==
    \/ ClRemoveGymbook
    \/ ClFillRepetitions
    \/ ClRemoveProgression

SpecColumns == InitColumns /\ [][NextColumns]_vars

ClRows(d) == 1..Len(d.rows)

\* C11: after the cell, "Set Duration (s)" is no longer a column of
\* df_progression, and the Repetitions of each row is the value the export
\* had when it had one and the row's "Set Duration (s)" otherwise, so that
\* no row loses its duration.
C11_DurationKeptInRepetitions ==
    pc = "cl_done" =>
        /\ "Set Duration (s)" \notin df_progression.columns
        /\ "Repetitions" \in df_progression.columns
        /\ Len(df_progression.rows) = Len(file_progression.rows)
        /\ \A i \in ClRows(df_progression) :
               df_progression.rows[i]["Repetitions"] =
                   IF file_progression.rows[i]["Repetitions"] # NaN
                     THEN file_progression.rows[i]["Repetitions"]
                     ELSE file_progression.rows[i]["Set Duration (s)"]

\* the column has the same cell in every row
ClOneCell(d, c) ==
    \A i, j \in ClRows(d) : d.rows[i][c] = d.rows[j][c]

\* the cells of the column that are not empty are all the same
ClOneValue(d, c) ==
    \A i, j \in ClRows(d) :
        (d.rows[i][c] # NaN /\ d.rows[j][c] # NaN) =>
            d.rows[i][c] = d.rows[j][c]

\* after is before without the columns `removed`: the other columns keep
\* their cells and no row is added or removed
ClWithout(before, after, removed) ==
    /\ after.columns = before.columns \ removed
    /\ Len(after.rows) = Len(before.rows)
    /\ \A i \in ClRows(after) :
           /\ DOMAIN after.rows[i] = after.columns
           /\ \A c \in after.columns : after.rows[i][c] = before.rows[i][c]

---------------------------------------------------------------------------
(* The muscle categories (column Bereich) of the unified table *)

map_muscle_category_ger_eng ==
    ("Arme" :> "Arms") @@ ("Bauch" :> "Abs") @@ ("Beine" :> "Legs")
    @@ ("Brust" :> "Chest") @@ ("Gesäss" :> "Glute") @@ ("Rücken" :> "Back")
    @@ ("Schultern" :> "Shoulders")

\* df["Bereich"].replace(map, inplace=True): one lookup for each row
ReplaceBereich(d, map) ==
    [i \in 1..Len(d) |->
        IF d[i].Bereich \in DOMAIN map
          THEN [d[i] EXCEPT !.Bereich = map[d[i].Bereich]]
          ELSE d[i]]

\* set(df[df["Bereich"] == "Undefined"]["Exercise Name"])
ExercisesWithoutCategory(d) ==
    {d[i].ExerciseName : i \in {j \in 1..Len(d) : d[j].Bereich = "Undefined"}}

\* set(df[df["Bereich"] != "Undefined"]["Exercise Name"])
ExercisesWithCategory(d) ==
    {d[i].ExerciseName : i \in {j \in 1..Len(d) : d[j].Bereich # "Undefined"}}

\* set(df[df["Exercise Name"] == exercise]["Bereich"]) - {"Undefined"}
CategoriesOf(d, exercise) ==
    {d[i].Bereich : i \in {j \in 1..Len(d) : d[j].ExerciseName = exercise}}
        \ {"Undefined"}

\* the assignment with a slip: the mask leaves out Bereich == "Undefined"
FillCategoryOfExercise(d, exercise, muscle_category) ==
    [i \in 1..Len(d) |->
        IF d[i].ExerciseName = exercise
          THEN [d[i] EXCEPT !.Bereich = muscle_category]
          ELSE d[i]]

\* df.loc[(df["Exercise Name"] == exercise) & (df["Bereich"] == "Undefined"),
\*        "Bereich"] = muscle_category
FillCategory(d, exercise, muscle_category) ==
    [i \in 1..Len(d) |->
        IF d[i].ExerciseName = exercise /\ d[i].Bereich = "Undefined"
          THEN [d[i] EXCEPT !.Bereich = muscle_category]
          ELSE d[i]]

\* df["Bereich"].replace(map_muscle_category_ger_eng, inplace=True)
CtTranslate ==
    /\ pc = "ct_start"
    /\ df' = ReplaceBereich(df, map_muscle_category_ger_eng)
    /\ pc' = "ct_english"
    /\ UNCHANGED <<csvVars, tableVars, nameVars, categoryVars>>

\* df["Bereich"].replace(np.nan, "Undefined", inplace=True)
CtUndefined ==
    /\ pc = "ct_english"
    /\ df' = ReplaceBereich(df, NaN :> "Undefined")
    /\ pc' = "ct_undefined"
    /\ UNCHANGED <<csvVars, tableVars, nameVars, categoryVars>>

\* the three sets before the loop; the loop then iterates over the third
CtSets ==
    /\ pc = "ct_undefined"
    /\ exercises_without_category' = ExercisesWithoutCategory(df)
    /\ exercises_with_category' = ExercisesWithCategory(df)
    /\ exercises_with_lost_category' =
           ExercisesWithCategory(df) \cap ExercisesWithoutCategory(df)
    /\ exercise_iter' = exercises_with_lost_category'
    /\ pc' = "ct_loop"
    /\ UNCHANGED <<csvVars, tableVars, df, nameVars>>

\* for exercise in exercises_with_lost_category: one pass of the body. A set
\* is iterated in an order the program does not fix, and next(iter(...))
\* takes whichever of the exercise's categories the set yields first.
CtFill ==
    /\ pc = "ct_loop"
    /\ \E exercise \in exercise_iter :
           /\ \E muscle_category \in CategoriesOf(df, exercise) :
                  df' = FillCategory(df, exercise, muscle_category)
           /\ exercise_iter' = exercise_iter \ {exercise}
    /\ UNCHANGED <<pc, csvVars, tableVars, nameVars,
                   exercises_without_category, exercises_with_category,
                   exercises_with_lost_category>>

\* the three sets after the loop
CtSetsAgain ==
    /\ pc = "ct_loop"
    /\ exercise_iter = {}
    /\ exercises_without_category' = ExercisesWithoutCategory(df)
    /\ exercises_with_category' = ExercisesWithCategory(df)
    /\ exercises_with_lost_category' =
           ExercisesWithCategory(df) \cap ExercisesWithoutCategory(df)
    /\ pc' = "ct_done"
    /\ UNCHANGED <<csvVars, tableVars, df, nameVars, exercise_iter>>

MaxCategoryRows == 3

\* The unified table before the cell: the rows of the GymBook export have
\* the category the app gave the exercise (in German), the rows of the
\* Progression export have none.
CtRows ==
    [ExerciseName : {"Squat", "Plank"}, Bereich : {NaN, "Beine", "Gesäss"}]

InitCategory ==
    /\ pc = "ct_start"
    /\ df \in SeqsUpTo(CtRows, MaxCategoryRows)
    /\ exercises_without_category = {}
    /\ exercises_with_category = {}
    /\ exercises_with_lost_category = {}
    /\ exercise_iter = {}
    /\ IdleCsv
    /\ IdleTables
    /\ IdleNames

NextCategory ==
    \/ CtTranslate
    \/ CtUndefined
    \/ CtSets
    \/ CtFill
    \/ CtSetsAgain

SpecCategory == InitCategory /\ [][NextCategory]_vars

\* C13: after the fill loop no exercise has both rows of category
\* "Undefined" and rows of a defined category, so exercises_with_lost_category
\* is computed empty; and no pass of the loop changes the category of a row
\* that has a defined one.
C13_LostCategoriesRestored ==
    /\ []((pc = "ct_done" \/ (pc = "ct_loop" /\ exercise_iter = {})) =>
            /\ \A i, j \in 1..Len(df) :
                   df[i].ExerciseName = df[j].ExerciseName =>
                       (df[i].Bereich = "Undefined" <=>
                            df[j].Bereich = "Undefined")
            /\ pc = "ct_done" => exercises_with_lost_category = {})
    /\ [][pc = "ct_loop" =>
            /\ Len(df') = Len(df)
            /\ \A i \in 1..Len(df) :
                   /\ df'[i].ExerciseName = df[i].ExerciseName
                   /\ df[i].Bereich # "Undefined" =>
                          df'[i].Bereich = df[i].Bereich]_vars

\* The loop has visited its one exercise, Squat, which had rows of two
\* defined categories and a row without one; every row has a category now.
C13_Witness ==
    /\ pc = "ct_loop"
    /\ exercise_iter = {}
    /\ exercises_with_lost_category = {"Squat"}
    /\ Len(df) = 3
    /\ {df[i].Bereich : i \in 1..2} = {"Legs", "Glute"}
    /\ df[3].Bereich \in {"Legs", "Glute"}

---------------------------------------------------------------------------
(* C14 *)

NmTableKeys ==
    DOMAIN map_gymbook_to_progression \cup DOMAIN map_progression_to_gymbook
        \cup DOMAIN map_rename_in_both

\* C14: after the three replacements by the tables (gymbook to progression,
\* progression to gymbook, rename in both) no Exercise Name of the unified
\* table is a key of one of the three tables, and the three replacements
\* run once more in the same order leave every name as it is.
C14_RenamingIdempotent ==
    pc = "nm_done" =>
        /\ \A i \in 1..Len(df) : df[i].ExerciseName \notin NmTableKeys
        /\ ReplaceNames(
               ReplaceNames(ReplaceNames(df, map_gymbook_to_progression),
                            map_progression_to_gymbook),
               map_rename_in_both) = df

\* The three replacements have run on a table that had keys of each of the
\* three tables, among them a name that two tables rename in turn, and all
\* of these rows have another name now.
C14_Witness ==
    /\ pc = "nm_done"
    /\ \A map \in {map_gymbook_to_progression, map_progression_to_gymbook,
                   map_rename_in_both} :
           \E i \in 1..Len(df) :
               /\ NmOriginal(i) \in DOMAIN map
               /\ df[i].ExerciseName # NmOriginal(i)
    /\ \E i \in 1..Len(df) :
           /\ NmOriginal(i) = "Calf Press in Leg Press"
           /\ df[i].ExerciseName \notin
                  {"Calf Press in Leg Press", "Machine Calf Press"}

===========================================================================
